---- MODULE Spec2Model ----
(***************************************************************************)
(* Model of the campus assistant back end: the SQLite store (events,       *)
(* exams, placements), the admin insert/delete routes, the four Query      *)
(* Layer tools of app/tools/data_tools.py, the response normalizer of      *)
(* CampusAgent.process_query and the chat endpoint of routes/chat.py.      *)
(*                                                                         *)
(* Text values on which the code or SQLite computes (dates, times,         *)
(* departments, companies, subjects, filter arguments) are sequences of    *)
(* one-character strings, so that comparison, LIKE matching, splitting and *)
(* trimming are computed character by character.  Text values that are     *)
(* only stored and returned (title, venue, ...) are plain strings.         *)
(***************************************************************************)
EXTENDS Integers, Sequences, FiniteSets, TLC

VARIABLES
    events,      \* rows of table events in data/campus.db
    exams,       \* rows of table exams in data/campus.db
    placements,  \* rows of table placements in data/campus.db
    seq,         \* sqlite_sequence: largest id ever issued, per table
    localDb,     \* the file app/campus.db that get_today_events opens
    today,       \* date.today(), as the day of the year 2025
    apiKey,      \* whether GROQ_API_KEY is set in the environment
    storage,     \* whether statements on data/campus.db succeed or fail
    openConns,   \* connections opened by a call and not closed when it ended
    agent,       \* the module global _agent of routes/chat.py
    attempts,    \* calls of create_campus_agent() so far
    constructed, \* CampusAgent instances constructed so far
    inflight,    \* chat requests suspended at "await agent.process_query"
    resp         \* outcome of the most recent request or tool call

chatVars == <<agent, attempts, constructed, inflight>>

vars == <<events, exams, placements, seq, localDb, today, apiKey, storage,
          openConns, chatVars, resp>>

----------------------------------------------------------------------------
(* Bounds *)

MaxRows == 2     \* rows per table
MaxId == 2       \* ids issued per table
MaxOpenConns == 1  \* connections left open
MaxAttempts == 2   \* calls of create_campus_agent()
MaxInflight == 2   \* chat requests in progress at once
MaxStoreRows == 1  \* rows in the three tables together, insert routes combined
MaxStoreIds == 2   \* ids issued in the three tables together, admin routes combined

----------------------------------------------------------------------------
(* Characters and text *)

\* The characters used, in ascending code-point order (the order memcmp and
\* Python's str comparison use).
Chars ==
    <<" ", "%", ",", "-",
      "0", "1", "2", "3", "4", "5", "6", "7", "8", "9", ":",
      "A", "B", "C", "D", "E", "F", "G", "H", "I", "J", "K", "L", "M",
      "N", "O", "P", "Q", "R", "S", "T", "U", "V", "W", "X", "Y", "Z",
      "_",
      "a", "b", "c", "d", "e", "f", "g", "h", "i", "j", "k", "l", "m",
      "n", "o", "p", "q", "r", "s", "t", "u", "v", "w", "x", "y", "z">>

CharSet == {Chars[i] : i \in 1..Len(Chars)}

Ord == [c \in CharSet |-> CHOOSE i \in 1..Len(Chars) : Chars[i] = c]

\* SQLite LOWER() / LIKE case folding: ASCII letters only.
LowerChar(c) ==
    IF Ord[c] >= Ord["A"] /\ Ord[c] <= Ord["Z"]
    THEN Chars[Ord["a"] + (Ord[c] - Ord["A"])]
    ELSE c

LowerStr(s) == [i \in 1..Len(s) |-> LowerChar(s[i])]

\* BINARY collation / Python str <: first differing character decides, a
\* proper prefix is smaller.
RECURSIVE StrLess(_, _)
StrLess(a, b) ==
    IF b = <<>> THEN FALSE
    ELSE IF a = <<>> THEN TRUE
    ELSE IF Head(a) = Head(b) THEN StrLess(Tail(a), Tail(b))
    ELSE Ord[Head(a)] < Ord[Head(b)]

StrLeq(a, b) == a = b \/ StrLess(a, b)

\* Python None / SQL NULL for a text value: a one-element sequence whose
\* element is not a character, hence different from every text.
None == <<"<None>">>

\* An Optional[int] argument: <<>> is None, <<n>> is the int n.
NoneInt == <<>>
SomeInt(n) == <<n>>

\* Python truthiness of an Optional[str] / Optional[int] argument.
Truthy(s) == s # None /\ s # <<>>

TruthyInt(n) == n # NoneInt /\ n[1] # 0

----------------------------------------------------------------------------
(* Calendar: datetime.date within the year 2025 *)

Year == <<"2", "0", "2", "5">>

MonthLen == <<31, 28, 31, 30, 31, 30, 31, 31, 30, 31, 30, 31>>

\* Days of the year before the first day of month m.
DaysBeforeMonth == <<0, 31, 59, 90, 120, 151, 181, 212, 243, 273, 304, 334>>

DaysBefore(m) == DaysBeforeMonth[m]

MonthOf(d) == CHOOSE m \in 1..12 : DaysBefore(m) < d /\ d <= DaysBefore(m) + MonthLen[m]

DayOf(d) == d - DaysBefore(MonthOf(d))

Digit(n) == Chars[Ord["0"] + n]

TwoDigits(n) == <<Digit(n \div 10), Digit(n % 10)>>

\* date.isoformat(): YYYY-MM-DD, zero padded.
isoformat(d) == Year \o <<"-">> \o TwoDigits(MonthOf(d)) \o <<"-">> \o TwoDigits(DayOf(d))

----------------------------------------------------------------------------
(* Text constants used as inputs *)

Cultural == <<"c", "u", "l", "t", "u", "r", "a", "l">>
Technical == <<"t", "e", "c", "h", "n", "i", "c", "a", "l">>
Sports == <<"s", "p", "o", "r", "t", "s">>

CSE == <<"C", "S", "E">>
ECE == <<"E", "C", "E">>
ME == <<"M", "E">>
CE == <<"C", "E">>
IT == <<"I", "T">>
EEE == <<"E", "E", "E">>

Jun10 == <<"2", "0", "2", "5", "-", "0", "6", "-", "1", "0">>
Jul01 == <<"2", "0", "2", "5", "-", "0", "7", "-", "0", "1">>
\* 2 June 2025 typed without zero padding: the admin routes store the form
\* field as received.
Jun2Short == <<"2", "0", "2", "5", "-", "0", "6", "-", "2">>

Nine == <<"9", ":", "0", "0", " ", "A", "M">>
Ten == <<"1", "0", ":", "0", "0", " ", "A", "M">>

\* The value date.today() takes in the model: 10 June 2025.
TodaySet == {DaysBefore(6) + 10}

\* days_ahead arguments: today only, and a window that runs into July.
DaysAheadSet == {0, 30}

----------------------------------------------------------------------------
(* SQL helpers *)

\* ORDER BY date ASC, time ASC on TEXT columns (BINARY collation).  Rows
\* that tie on both keys come out in rowid order, as SQLite's scan produces
\* them.
RowBefore(a, b) ==
    \/ StrLess(a.date, b.date)
    \/ a.date = b.date /\ StrLess(a.time, b.time)
    \/ a.date = b.date /\ a.time = b.time /\ a.id < b.id

RECURSIVE OrderByDateTime(_)
OrderByDateTime(S) ==
    IF S = {} THEN <<>>
    ELSE LET first == CHOOSE r \in S : \A o \in S \ {r} : RowBefore(r, o)
         IN <<first>> \o OrderByDateTime(S \ {first})

\* A SELECT without ORDER BY: the table scan yields rows in rowid order.
RECURSIVE ScanOrder(_)
ScanOrder(S) ==
    IF S = {} THEN <<>>
    ELSE LET first == CHOOSE r \in S : \A o \in S \ {r} : r.id < o.id
         IN <<first>> \o ScanOrder(S \ {first})

\* SQLite LIKE: '%' matches any run of characters, '_' any one character,
\* other characters match case-insensitively (ASCII).
RECURSIVE Like(_, _)
Like(text, pat) ==
    IF pat = <<>> THEN text = <<>>
    ELSE IF Head(pat) = "%"
         THEN Like(text, Tail(pat)) \/ (text # <<>> /\ Like(Tail(text), pat))
    ELSE /\ text # <<>>
         /\ (Head(pat) = "_" \/ LowerChar(Head(pat)) = LowerChar(Head(text)))
         /\ Like(Tail(text), Tail(pat))

\* f"%{x}%"
Wrap(x) == <<"%">> \o x \o <<"%">>

\* date >= ? AND date <= ?, compared as TEXT.
InWindow(d, lo, hi) == StrLeq(lo, d) /\ StrLeq(d, hi)

----------------------------------------------------------------------------
(* Query Layer: events *)

EventCategories == {Cultural, Technical}

\* get_events with the membership test on category left out.
get_events_unchecked(tbl, day, event_date, category, days_ahead) ==
    LET today_str == isoformat(day)
        future_date == isoformat(day + days_ahead)
        dateOk(r) == IF Truthy(event_date)
                     THEN r.date = event_date
                     ELSE InWindow(r.date, today_str, future_date)
        catOk(r) == IF Truthy(category) THEN r.category = category ELSE TRUE
    IN OrderByDateTime({r \in tbl : dateOk(r) /\ catOk(r)})

\* get_events with the window condition applied to an explicit date too.
get_events_windowed(tbl, day, event_date, category, days_ahead) ==
    LET today_str == isoformat(day)
        future_date == isoformat(day + days_ahead)
        dateOk(r) == /\ Truthy(event_date) => r.date = event_date
                     /\ InWindow(r.date, today_str, future_date)
        catOk(r) == IF Truthy(category) /\ category \in EventCategories
                    THEN r.category = category
                    ELSE TRUE
    IN OrderByDateTime({r \in tbl : dateOk(r) /\ catOk(r)})

get_events(tbl, day, event_date, category, days_ahead) ==
    LET today_str == isoformat(day)
        future_date == isoformat(day + days_ahead)
        dateOk(r) == IF Truthy(event_date)
                     THEN r.date = event_date
                     ELSE InWindow(r.date, today_str, future_date)
        catOk(r) == IF Truthy(category) /\ category \in EventCategories
                    THEN r.category = category
                    ELSE TRUE
    IN OrderByDateTime({r \in tbl : dateOk(r) /\ catOk(r)})

\* SELECT id, title, category, date, time, venue, organizer
TodayColumns(r) ==
    [id |-> r.id, title |-> r.title, category |-> r.category, date |-> r.date,
     time |-> r.time, venue |-> r.venue, organizer |-> r.organizer]

get_today_events(tbl, day) ==
    LET today_str == isoformat(day)
        rows == ScanOrder({r \in tbl : r.date = today_str})
    IN [i \in 1..Len(rows) |-> TodayColumns(rows[i])]

----------------------------------------------------------------------------
(* State after start-up: main.py runs init_database(), which creates the   *)
(* three empty tables in data/campus.db.  app/campus.db is not written by  *)
(* any route; it is absent, or a copy of an events table left there.       *)

NoLocalDb == [exists |-> FALSE, hasTable |-> FALSE, rows |-> {}]

EventRow(id, title, category, date, time, venue, organizer, description) ==
    [id |-> id, title |-> title, category |-> category, date |-> date,
     time |-> time, venue |-> venue, organizer |-> organizer,
     description |-> description]

LocalCopy ==
    [exists |-> TRUE, hasTable |-> TRUE,
     rows |-> {EventRow(1, "AI Workshop", Technical, Jun10, Nine, "Hall A", "Tech Club", ""),
               EventRow(2, "Fest", Cultural, Jun10, Ten, "Hall A", "Tech Club", "")}]

Idle == [kind |-> "none"]

\* _agent = None.  The instance made by the n-th successful CampusAgent(...)
\* call is <<n>>.
NoAgent == <<>>

NoRequest == [busy |-> FALSE]

\* str(e) of the sqlite3.OperationalError raised by a statement
DiskIoError == <<"d", "i", "s", "k", " ", "I", "/", "O", " ", "e", "r", "r", "o", "r">>
NoSuchTable == <<"n", "o", " ", "s", "u", "c", "h", " ", "t", "a", "b", "l", "e", ":", " ", "e", "v", "e", "n", "t", "s">>

Init ==
    /\ events = {}
    /\ exams = {}
    /\ placements = {}
    /\ seq = [events |-> 0, exams |-> 0, placements |-> 0]
    /\ localDb \in {NoLocalDb, LocalCopy}
    /\ today \in TodaySet
    /\ apiKey \in BOOLEAN
    /\ storage \in {"ok", "failing"}
    /\ openConns = 0
    /\ agent = NoAgent
    /\ attempts = 0
    /\ constructed = 0
    /\ inflight = [slot \in 1..MaxInflight |-> NoRequest]
    /\ resp = Idle

\* Start-up states for the runs that exercise one table: the key is set and
\* app/campus.db is as found.
InitStore == Init /\ apiKey /\ storage = "ok"

----------------------------------------------------------------------------
(* Admin routes: events *)

Titles == {"AI Workshop"}
Venues == {"Hall A"}
Organizers == {"Tech Club"}
Descriptions == {""}
CategoryInputs == {Cultural, Technical, Sports}
DateInputs == {Jun10, Jun2Short, Jul01}
TimeInputs == {Nine, Ten}

\* The reply to an admin request; form is what the request submitted.
Redirect(op, form, url) ==
    [kind |-> "admin", op |-> op, form |-> form, status |-> 303, url |-> url]
HttpError(op, form, detail) ==
    [kind |-> "admin", op |-> op, form |-> form, status |-> 500, detail |-> detail]

\* add_event on a table whose id is a plain INTEGER PRIMARY KEY: the new id
\* is one more than the largest id now in the table.
add_event_rowid(title, category, date, time, venue, organizer, description) ==
    /\ Cardinality(events) < MaxRows
    /\ seq.events < MaxId
    /\ LET form == EventRow(0, title, category, date, time, venue, organizer,
                             description)
           top == IF events = {} THEN 0
                  ELSE CHOOSE n \in {r.id : r \in events} :
                           \A r \in events : r.id <= n
       IN IF storage # "ok"
          THEN /\ resp' = HttpError("add_event", form, "Error adding event: disk I/O error")
               /\ UNCHANGED <<events, seq>>
          ELSE IF category \notin EventCategories
          THEN /\ resp' = HttpError("add_event", form, "Error adding event: CHECK constraint failed")
               /\ UNCHANGED <<events, seq>>
          ELSE /\ events' = events \cup
                     {EventRow(top + 1, title, category, date, time,
                               venue, organizer, description)}
               /\ seq' = [seq EXCEPT !.events = @ + 1]
               /\ resp' = Redirect("add_event", form, "/admin/events")
    /\ UNCHANGED <<exams, placements, localDb, today, apiKey, storage, openConns, chatVars>>

\* add_event on a table declared without the CHECK on category.
add_event_nocheck(title, category, date, time, venue, organizer, description) ==
    /\ Cardinality(events) < MaxRows
    /\ seq.events < MaxId
    /\ LET form == EventRow(0, title, category, date, time, venue, organizer,
                             description)
       IN IF storage # "ok"
          THEN /\ resp' = HttpError("add_event", form, "Error adding event: disk I/O error")
               /\ UNCHANGED <<events, seq>>
          ELSE /\ events' = events \cup
                     {EventRow(seq.events + 1, title, category, date, time,
                               venue, organizer, description)}
               /\ seq' = [seq EXCEPT !.events = @ + 1]
               /\ resp' = Redirect("add_event", form, "/admin/events")
    /\ UNCHANGED <<exams, placements, localDb, today, apiKey, storage, openConns, chatVars>>

\* POST /admin/events/add.  The INSERT is rejected by the CHECK constraint
\* on category; the date, time and other TEXT columns take any text.
add_event(title, category, date, time, venue, organizer, description) ==
    /\ Cardinality(events) < MaxRows
    /\ seq.events < MaxId
    /\ LET form == EventRow(0, title, category, date, time, venue, organizer,
                             description)
       IN IF storage # "ok"
          THEN /\ resp' = HttpError("add_event", form, "Error adding event: disk I/O error")
               /\ UNCHANGED <<events, seq>>
          ELSE IF category \notin EventCategories
          THEN /\ resp' = HttpError("add_event", form, "Error adding event: CHECK constraint failed")
               /\ UNCHANGED <<events, seq>>
          ELSE /\ events' = events \cup
                     {EventRow(seq.events + 1, title, category, date, time,
                               venue, organizer, description)}
               /\ seq' = [seq EXCEPT !.events = @ + 1]
               /\ resp' = Redirect("add_event", form, "/admin/events")
    /\ UNCHANGED <<exams, placements, localDb, today, apiKey, storage, openConns, chatVars>>

\* delete_event answering with an error when no row has the id.
delete_event_strict(event_id) ==
    /\ IF storage # "ok"
       THEN /\ resp' = HttpError("delete_event", [id |-> event_id],
                                 "Error deleting event: disk I/O error")
            /\ UNCHANGED events
       ELSE IF \A r \in events : r.id # event_id
       THEN /\ resp' = HttpError("delete_event", [id |-> event_id],
                                 "Error deleting event: not found")
            /\ UNCHANGED events
       ELSE /\ events' = {r \in events : r.id # event_id}
            /\ resp' = Redirect("delete_event", [id |-> event_id], "/admin/events")
    /\ UNCHANGED <<exams, placements, seq, localDb, today, apiKey, storage, openConns, chatVars>>

\* POST /admin/events/delete/{event_id}
delete_event(event_id) ==
    /\ IF storage # "ok"
       THEN /\ resp' = HttpError("delete_event", [id |-> event_id],
                                 "Error deleting event: disk I/O error")
            /\ UNCHANGED events
       ELSE /\ events' = {r \in events : r.id # event_id}
            /\ resp' = Redirect("delete_event", [id |-> event_id], "/admin/events")
    /\ UNCHANGED <<exams, placements, seq, localDb, today, apiKey, storage, openConns, chatVars>>

AddEvent ==
    \E title \in Titles, category \in CategoryInputs, date \in DateInputs,
       time \in TimeInputs, venue \in Venues, organizer \in Organizers,
       description \in Descriptions :
        add_event(title, category, date, time, venue, organizer, description)

DeleteEvent == \E event_id \in 1..MaxId : delete_event(event_id)

----------------------------------------------------------------------------
(* Tool calls: events *)

EventDateArgs == {None, Jun10, Jul01, Jun2Short}
CategoryArgs == {None, Cultural, Technical, Sports}

ToolFault(op, args, err) ==
    [kind |-> "tool", op |-> op, args |-> args, ok |-> FALSE, rows |-> <<>>,
     err |-> err]

ToolResult(op, args, rows) ==
    [kind |-> "tool", op |-> op, args |-> args, ok |-> TRUE, rows |-> rows,
     err |-> <<>>]

\* A tool called on its own.  The statement runs inside "with
\* get_db_connection()": an error leaves the with block after rollback, and
\* the connection is closed in the finally clause either way.
call_get_events(event_date, category, days_ahead) ==
    LET args == [event_date |-> event_date, category |-> category,
                 days_ahead |-> days_ahead]
    IN IF storage = "ok"
       THEN ToolResult("get_events", args,
                get_events(events, today, event_date, category, days_ahead))
       ELSE ToolFault("get_events", args, DiskIoError)

GetEvents ==
    \E event_date \in EventDateArgs, category \in CategoryArgs,
       days_ahead \in DaysAheadSet :
        /\ resp' = call_get_events(event_date, category, days_ahead)
        /\ UNCHANGED <<events, exams, placements, seq, localDb, today, apiKey, storage, openConns, chatVars>>

\* get_today_events with an except clause that returns [] instead of
\* re-raising.
call_get_today_events_swallow ==
    LET args == [none |-> TRUE]
    IN IF localDb.hasTable
       THEN ToolResult("get_today_events", args,
                get_today_events(localDb.rows, today))
       ELSE ToolResult("get_today_events", args, <<>>)

\* get_today_events opens app/campus.db itself: sqlite3.connect creates the
\* file when it is missing, and the SELECT then fails for want of the table.
\* The except clause prints and re-raises.
call_get_today_events ==
    LET args == [none |-> TRUE]
    IN IF localDb.hasTable
       THEN ToolResult("get_today_events", args,
                get_today_events(localDb.rows, today))
       ELSE ToolFault("get_today_events", args, NoSuchTable)

\* What a call of get_today_events leaves behind: the file, and, when the
\* SELECT raised, the connection, since conn.close() comes after fetchall()
\* inside the try block.
today_events_effects(result) ==
    /\ result.ok \/ openConns < MaxOpenConns
    /\ localDb' = [localDb EXCEPT !.exists = TRUE]
    /\ openConns' = IF result.ok THEN openConns ELSE openConns + 1

GetTodayEvents ==
    /\ resp' = call_get_today_events
    /\ today_events_effects(call_get_today_events)
    /\ UNCHANGED <<events, exams, placements, seq, today, apiKey, storage, chatVars>>

NextEvents == AddEvent \/ DeleteEvent \/ GetEvents \/ GetTodayEvents

SpecEvents == InitStore /\ [][NextEvents]_vars

----------------------------------------------------------------------------
(* Query Layer: exams *)

Departments == {CSE, ECE, ME, CE, IT, EEE}

MinSemester == 1
MaxSemester == 8

\* get_exams with the membership test on department left out.
get_exams_unchecked(tbl, day, department, semester, subject, days_ahead) ==
    LET today_str == isoformat(day)
        future_date == isoformat(day + days_ahead)
        deptOk(r) == IF Truthy(department) THEN r.department = department ELSE TRUE
        semOk(r) == IF /\ TruthyInt(semester)
                       /\ MinSemester <= semester[1]
                       /\ semester[1] <= MaxSemester
                    THEN r.semester = semester[1]
                    ELSE TRUE
        subjOk(r) == IF Truthy(subject)
                     THEN Like(LowerStr(r.subject), LowerStr(Wrap(subject)))
                     ELSE TRUE
    IN OrderByDateTime({r \in tbl : /\ InWindow(r.date, today_str, future_date)
                                    /\ deptOk(r) /\ semOk(r) /\ subjOk(r)})

get_exams(tbl, day, department, semester, subject, days_ahead) ==
    LET today_str == isoformat(day)
        future_date == isoformat(day + days_ahead)
        deptOk(r) == IF Truthy(department) /\ department \in Departments
                     THEN r.department = department
                     ELSE TRUE
        semOk(r) == IF /\ TruthyInt(semester)
                       /\ MinSemester <= semester[1]
                       /\ semester[1] <= MaxSemester
                    THEN r.semester = semester[1]
                    ELSE TRUE
        subjOk(r) == IF Truthy(subject)
                     THEN Like(LowerStr(r.subject), LowerStr(Wrap(subject)))
                     ELSE TRUE
    IN OrderByDateTime({r \in tbl : /\ InWindow(r.date, today_str, future_date)
                                    /\ deptOk(r) /\ semOk(r) /\ subjOk(r)})

----------------------------------------------------------------------------
(* Query Layer: placements *)

\* str.split(','): every comma separates, empty pieces are kept.
RECURSIVE SplitComma(_, _)
SplitComma(s, piece) ==
    IF s = <<>> THEN <<piece>>
    ELSE IF Head(s) = "," THEN <<piece>> \o SplitComma(Tail(s), <<>>)
    ELSE SplitComma(Tail(s), Append(piece, Head(s)))

split(s) == SplitComma(s, <<>>)

IsSpace(c) == c = " "

RECURSIVE lstrip(_)
lstrip(s) == IF s # <<>> /\ IsSpace(Head(s)) THEN lstrip(Tail(s)) ELSE s

RECURSIVE rstrip(_)
rstrip(s) ==
    IF s # <<>> /\ IsSpace(s[Len(s)]) THEN rstrip(SubSeq(s, 1, Len(s) - 1)) ELSE s

\* str.strip()
strip(s) == rstrip(lstrip(s))

\* ParseDepartment with the strip() left out.
ParseDepartment_nostrip(r) == [r EXCEPT !.department = split(r.department)]

\* result['department'] = [d.strip() for d in result['department'].split(',')]
ParseDepartment(r) ==
    LET pieces == split(r.department)
    IN [r EXCEPT !.department = [i \in 1..Len(pieces) |-> strip(pieces[i])]]

get_placements(tbl, day, department, company, days_ahead) ==
    LET today_str == isoformat(day)
        future_date == isoformat(day + days_ahead)
        deptOk(r) == IF Truthy(department)
                     THEN Like(r.department, Wrap(department))
                     ELSE TRUE
        compOk(r) == IF Truthy(company)
                     THEN Like(LowerStr(r.company), LowerStr(Wrap(company)))
                     ELSE TRUE
        rows == OrderByDateTime({r \in tbl : /\ InWindow(r.date, today_str, future_date)
                                             /\ deptOk(r) /\ compOk(r)})
    IN [i \in 1..Len(rows) |-> ParseDepartment(rows[i])]

----------------------------------------------------------------------------
(* Admin routes: exams *)

ExamRow(id, exam_name, subject, department, semester, date, time, venue) ==
    [id |-> id, exam_name |-> exam_name, subject |-> subject,
     department |-> department, semester |-> semester, date |-> date,
     time |-> time, venue |-> venue]

Data == <<"D", "a", "t", "a">>
DBMS == <<"D", "B", "M", "S">>
LowerCse == <<"c", "s", "e">>

ExamNames == {"Mid Semester Examination"}
SubjectInputs == {Data, DBMS}
DepartmentInputs == {CSE, ECE, LowerCse}
SemesterInputs == {3, 9}
ExamDateInputs == {Jun10, Jul01}
ExamTimeInputs == {Nine}

\* POST /admin/exams/add.  CHECK constraints: department in the six codes,
\* semester BETWEEN 1 AND 8.
add_exam(exam_name, subject, department, semester, date, time, venue) ==
    /\ Cardinality(exams) < MaxRows
    /\ seq.exams < MaxId
    /\ LET form == ExamRow(0, exam_name, subject, department, semester, date,
                            time, venue)
       IN IF storage # "ok"
          THEN /\ resp' = HttpError("add_exam", form, "Error adding exam: disk I/O error")
               /\ UNCHANGED <<exams, seq>>
          ELSE IF \/ department \notin Departments
                  \/ semester < MinSemester
                  \/ semester > MaxSemester
          THEN /\ resp' = HttpError("add_exam", form, "Error adding exam: CHECK constraint failed")
               /\ UNCHANGED <<exams, seq>>
          ELSE /\ exams' = exams \cup
                     {ExamRow(seq.exams + 1, exam_name, subject, department,
                              semester, date, time, venue)}
               /\ seq' = [seq EXCEPT !.exams = @ + 1]
               /\ resp' = Redirect("add_exam", form, "/admin/exams")
    /\ UNCHANGED <<events, placements, localDb, today, apiKey, storage, openConns, chatVars>>

\* POST /admin/exams/delete/{exam_id}
delete_exam(exam_id) ==
    /\ IF storage # "ok"
       THEN /\ resp' = HttpError("delete_exam", [id |-> exam_id],
                                 "Error deleting exam: disk I/O error")
            /\ UNCHANGED exams
       ELSE /\ exams' = {r \in exams : r.id # exam_id}
            /\ resp' = Redirect("delete_exam", [id |-> exam_id], "/admin/exams")
    /\ UNCHANGED <<events, placements, seq, localDb, today, apiKey, storage, openConns, chatVars>>

AddExam ==
    \E exam_name \in ExamNames, subject \in SubjectInputs,
       department \in DepartmentInputs, semester \in SemesterInputs,
       date \in ExamDateInputs, time \in ExamTimeInputs, venue \in Venues :
        add_exam(exam_name, subject, department, semester, date, time, venue)

DeleteExam == \E exam_id \in 1..MaxId : delete_exam(exam_id)

----------------------------------------------------------------------------
(* Tool calls: exams *)

LowerDat == <<"d", "a", "t">>
DUnderscore == <<"D", "_">>

ExamDepartmentArgs == {None, CSE, LowerCse}
SemesterArgs == {NoneInt, SomeInt(0), SomeInt(3), SomeInt(9)}
SubjectArgs == {None, LowerDat, DUnderscore}

GetExams ==
    \E department \in ExamDepartmentArgs, semester \in SemesterArgs,
       subject \in SubjectArgs, days_ahead \in DaysAheadSet :
        LET args == [department |-> department, semester |-> semester,
                     subject |-> subject, days_ahead |-> days_ahead]
        IN /\ resp' = IF storage = "ok"
                      THEN ToolResult("get_exams", args,
                               get_exams(exams, today, department, semester, subject, days_ahead))
                      ELSE ToolFault("get_exams", args, DiskIoError)
           /\ UNCHANGED <<events, exams, placements, seq, localDb, today, apiKey, storage, openConns, chatVars>>

\* Start-up with app/campus.db absent, for the runs on exams and placements.
InitTable == InitStore /\ localDb = NoLocalDb

NextExams == AddExam \/ DeleteExam \/ GetExams

SpecExams == InitTable /\ [][NextExams]_vars

----------------------------------------------------------------------------
(* Admin routes: placements *)

PlacementRow(id, company, role, department, date, time, venue) ==
    [id |-> id, company |-> company, role |-> role, department |-> department,
     date |-> date, time |-> time, venue |-> venue]

TCS == <<"T", "C", "S">>
Wipro == <<"W", "i", "p", "r", "o">>
CseItEce == <<"C", "S", "E", ",", "I", "T", ",", "E", "C", "E">>
CseSpaceIt == <<"C", "S", "E", ",", " ", "I", "T">>

Roles == {"System Engineer"}
CompanyInputs == {TCS, Wipro}
PlacementDepartmentInputs == {CseItEce, CseSpaceIt, ECE}
PlacementDateInputs == {Jun10, Jul01}
PlacementTimeInputs == {Nine}

\* POST /admin/placements/add.  The table has no CHECK constraint.
add_placement(company, role, department, date, time, venue) ==
    /\ Cardinality(placements) < MaxRows
    /\ seq.placements < MaxId
    /\ LET form == PlacementRow(0, company, role, department, date, time, venue)
       IN IF storage # "ok"
          THEN /\ resp' = HttpError("add_placement", form,
                                    "Error adding placement: disk I/O error")
               /\ UNCHANGED <<placements, seq>>
          ELSE /\ placements' = placements \cup
                     {PlacementRow(seq.placements + 1, company, role, department,
                                   date, time, venue)}
               /\ seq' = [seq EXCEPT !.placements = @ + 1]
               /\ resp' = Redirect("add_placement", form, "/admin/placements")
    /\ UNCHANGED <<events, exams, localDb, today, apiKey, storage, openConns, chatVars>>

\* POST /admin/placements/delete/{placement_id}
delete_placement(placement_id) ==
    /\ IF storage # "ok"
       THEN /\ resp' = HttpError("delete_placement", [id |-> placement_id],
                                 "Error deleting placement: disk I/O error")
            /\ UNCHANGED placements
       ELSE /\ placements' = {r \in placements : r.id # placement_id}
            /\ resp' = Redirect("delete_placement", [id |-> placement_id],
                                "/admin/placements")
    /\ UNCHANGED <<events, exams, seq, localDb, today, apiKey, storage, openConns, chatVars>>

AddPlacement ==
    \E company \in CompanyInputs, role \in Roles,
       department \in PlacementDepartmentInputs, date \in PlacementDateInputs,
       time \in PlacementTimeInputs, venue \in Venues :
        add_placement(company, role, department, date, time, venue)

DeletePlacement == \E placement_id \in 1..MaxId : delete_placement(placement_id)

----------------------------------------------------------------------------
(* Tool calls: placements *)

LowerTc == <<"t", "c">>
TUnderscoreS == <<"T", "_", "S">>
CUnderscoreE == <<"C", "_", "E">>

PlacementDepartmentArgs == {None, CSE, CE, LowerCse, CUnderscoreE}
CompanyArgs == {None, LowerTc, TUnderscoreS}

GetPlacements ==
    \E department \in PlacementDepartmentArgs, company \in CompanyArgs,
       days_ahead \in DaysAheadSet :
        LET args == [department |-> department, company |-> company,
                     days_ahead |-> days_ahead]
        IN /\ resp' = IF storage = "ok"
                      THEN ToolResult("get_placements", args,
                               get_placements(placements, today, department, company, days_ahead))
                      ELSE ToolFault("get_placements", args, DiskIoError)
           /\ UNCHANGED <<events, exams, placements, seq, localDb, today, apiKey, storage, openConns, chatVars>>

NextPlacements == AddPlacement \/ DeletePlacement \/ GetPlacements

SpecPlacements == InitTable /\ [][NextPlacements]_vars

----------------------------------------------------------------------------
(* Helpers for stating the properties *)

IsTool(op) == resp.kind = "tool" /\ resp.op = op

Returned(op) == IsTool(op) /\ resp.ok

RowSet(rows) == {rows[i] : i \in 1..Len(rows)}

RECURSIVE SplitOn(_, _, _)
SplitOn(s, sep, piece) ==
    IF s = <<>> THEN <<piece>>
    ELSE IF Head(s) = sep THEN <<piece>> \o SplitOn(Tail(s), sep, <<>>)
    ELSE SplitOn(Tail(s), sep, Append(piece, Head(s)))

IsDigit(c) == Ord[c] >= Ord["0"] /\ Ord[c] <= Ord["9"]

IsNumber(s) == s # <<>> /\ \A i \in 1..Len(s) : IsDigit(s[i])

RECURSIVE NumberOf(_)
NumberOf(s) ==
    IF s = <<>> THEN 0
    ELSE 10 * NumberOf(SubSeq(s, 1, Len(s) - 1)) + (Ord[s[Len(s)]] - Ord["0"])

\* The calendar day (day of the year 2025) a stored date text denotes when
\* read as year-month-day, 0 when it denotes none.
CalendarDay(s) ==
    LET p == SplitOn(s, "-", <<>>)
    IN IF /\ Len(p) = 3
          /\ \A i \in 1..3 : IsNumber(p[i])
          /\ p[1] = Year
          /\ NumberOf(p[2]) \in 1..12
          /\ NumberOf(p[3]) \in 1..MonthLen[NumberOf(p[2])]
       THEN DaysBefore(NumberOf(p[2])) + NumberOf(p[3])
       ELSE 0

\* A result sequence ordered by date, then by time as text.
SortedByDateTime(rows) ==
    \A i, j \in 1..Len(rows) :
        i < j => \/ StrLess(rows[i].date, rows[j].date)
                 \/ rows[i].date = rows[j].date /\ StrLeq(rows[i].time, rows[j].time)

----------------------------------------------------------------------------
(* Properties of the event tools, checked under SpecEvents *)

\* C1: get_today_events() returns exactly the records, with the same fields,
\* that get_events(event_date=today) returns without a category: all and
\* only the stored events whose date is today.
C1_TodayEventsEqualEventsOfToday ==
    IsTool("get_today_events") =>
        /\ resp.ok
        /\ RowSet(resp.rows) = RowSet(get_events(events, today, isoformat(today), None, 7))
        /\ RowSet(resp.rows) = {r \in events : r.date = isoformat(today)}

\* C2: with category 'cultural' or 'technical' every record returned by
\* get_events has that category; with any other category value the result is
\* the result of the same call without a category.
C2_CategoryFilter ==
    Returned("get_events") =>
        IF resp.args.category \in EventCategories
        THEN \A i \in 1..Len(resp.rows) : resp.rows[i].category = resp.args.category
        ELSE resp.rows = get_events(events, today, resp.args.event_date, None,
                                    resp.args.days_ahead)

\* C2 witness: a call with an unknown category returned events of both
\* categories.
C2_Witness ==
    /\ Returned("get_events")
    /\ resp.args.category = Sports
    /\ \E i, j \in 1..Len(resp.rows) :
           resp.rows[i].category = Cultural /\ resp.rows[j].category = Technical

\* C3: every record get_events returns when no date is given lies in the
\* calendar window today .. today + days_ahead.
C3_WindowInCalendarOrder ==
    Returned("get_events") /\ ~Truthy(resp.args.event_date) =>
        \A i \in 1..Len(resp.rows) :
            LET d == CalendarDay(resp.rows[i].date)
            IN d # 0 /\ today <= d /\ d <= today + resp.args.days_ahead

\* C8: every sequence a read tool returns is ordered by date ascending and,
\* within a date, by the time text ascending.
C8_ResultsOrdered ==
    resp.kind = "tool" /\ resp.ok => SortedByDateTime(resp.rows)

----------------------------------------------------------------------------
(* Properties of the placement tool, checked under SpecPlacements *)

\* sub occurs in text as a contiguous run of characters.
Contains(text, sub) ==
    \E i \in 0..(Len(text) - Len(sub)) : SubSeq(text, i + 1, i + Len(sub)) = sub

ContainsNoCase(text, sub) == Contains(LowerStr(text), LowerStr(sub))

InCalendarWindow(d, day, days_ahead) ==
    CalendarDay(d) # 0 /\ day <= CalendarDay(d) /\ CalendarDay(d) <= day + days_ahead

RowIds(rows) == {rows[i].id : i \in 1..Len(rows)}

\* C4: get_placements(department=d, company=c, days_ahead=n) returns exactly
\* the stored placements dated within today .. today+n whose department text
\* contains d and whose company contains c, both as case-insensitive
\* substrings.
C4_PlacementsSubstringFilter ==
    Returned("get_placements") =>
        RowIds(resp.rows) =
            {r.id : r \in
                {p \in placements :
                    /\ InCalendarWindow(p.date, today, resp.args.days_ahead)
                    /\ resp.args.department # None =>
                           ContainsNoCase(p.department, resp.args.department)
                    /\ resp.args.company # None =>
                           ContainsNoCase(p.company, resp.args.company)}}

\* The pieces of a comma-joined text, read off the comma positions: piece k
\* runs between the (k-1)-th and the k-th comma, cut down to the span from
\* its first to its last non-blank character.
CommaAt(s) == {i \in 1..Len(s) : s[i] = ","}

PieceStart(s, k) ==
    IF k = 1 THEN 1
    ELSE 1 + CHOOSE c \in CommaAt(s) : Cardinality({x \in CommaAt(s) : x < c}) = k - 2

PieceEnd(s, k) ==
    IF k = Cardinality(CommaAt(s)) + 1 THEN Len(s)
    ELSE (CHOOSE c \in CommaAt(s) : Cardinality({x \in CommaAt(s) : x < c}) = k - 1) - 1

TrimmedPiece(s, k) ==
    LET inked == {i \in PieceStart(s, k)..PieceEnd(s, k) : s[i] # " "}
    IN IF inked = {} THEN <<>>
       ELSE SubSeq(s, CHOOSE i \in inked : \A j \in inked : i <= j,
                      CHOOSE i \in inked : \A j \in inked : i >= j)

\* C5: each record get_placements returns carries as department the list of
\* the comma-separated pieces of the stored text, each trimmed, in stored
\* order, and its other fields are the stored ones.
C5_DepartmentIsTrimmedCommaSplit ==
    Returned("get_placements") =>
        \A i \in 1..Len(resp.rows) :
            \E p \in placements :
                /\ p.id = resp.rows[i].id
                /\ [resp.rows[i] EXCEPT !.department = p.department] = p
                /\ Len(resp.rows[i].department) = Cardinality(CommaAt(p.department)) + 1
                /\ \A k \in 1..Len(resp.rows[i].department) :
                       resp.rows[i].department[k] = TrimmedPiece(p.department, k)
                /\ p.department = CseItEce => resp.rows[i].department = <<CSE, IT, ECE>>

\* C5 witness: a returned record whose stored department had a blank after
\* the comma, and one stored as 'CSE,IT,ECE'.
C5_Witness ==
    /\ Returned("get_placements")
    /\ \E i, j \in 1..Len(resp.rows) :
           /\ resp.rows[i].department = <<CSE, IT>>
           /\ resp.rows[j].department = <<CSE, IT, ECE>>
    /\ \E p \in placements : p.department = CseSpaceIt

----------------------------------------------------------------------------
(* Properties of the exam tool, checked under SpecExams *)

\* C6: get_exams returns exactly the stored exams dated within
\* today .. today+days_ahead that match each supplied valid filter:
\* department equal to the enum code given, semester equal to the value
\* given when it lies in 1..8, subject containing the text given as a
\* case-insensitive substring.
C6_ExamsFilter ==
    Returned("get_exams") =>
        RowIds(resp.rows) =
            {r.id : r \in
                {e \in exams :
                    /\ InCalendarWindow(e.date, today, resp.args.days_ahead)
                    /\ resp.args.department \in Departments =>
                           e.department = resp.args.department
                    /\ (/\ resp.args.semester # NoneInt
                        /\ resp.args.semester[1] \in MinSemester..MaxSemester) =>
                           e.semester = resp.args.semester[1]
                    /\ Truthy(resp.args.subject) =>
                           ContainsNoCase(e.subject, resp.args.subject)}}

----------------------------------------------------------------------------
(* Tool calls against a populated store.  The stores are those left by two *)
(* admin inserts per table, one, or none.                                  *)

SampleEvents ==
    <<EventRow(1, "AI Workshop", Technical, Jun10, Nine, "Hall A", "Tech Club", ""),
      EventRow(2, "AI Workshop", Cultural, Jul01, Ten, "Hall A", "Tech Club", "")>>

SampleExams ==
    <<ExamRow(1, "Mid Semester Examination", Data, CSE, 3, Jun10, Nine, "Hall A"),
      ExamRow(2, "Mid Semester Examination", DBMS, ECE, 3, Jul01, Nine, "Hall A")>>

SamplePlacements ==
    <<PlacementRow(1, TCS, "System Engineer", CseItEce, Jun10, Nine, "Hall A"),
      PlacementRow(2, Wipro, "System Engineer", ECE, Jul01, Nine, "Hall A")>>

FirstRows(sample, n) == {sample[i] : i \in 1..n}

InitQuery ==
    /\ \E n \in {0, Len(SampleEvents)} : events = FirstRows(SampleEvents, n)
    /\ \E n \in {0, Len(SampleExams)} : exams = FirstRows(SampleExams, n)
    /\ \E n \in {0, Len(SamplePlacements)} : placements = FirstRows(SamplePlacements, n)
    /\ seq = [events |-> Cardinality(events), exams |-> Cardinality(exams),
              placements |-> Cardinality(placements)]
    /\ localDb \in {NoLocalDb, LocalCopy}
    /\ today \in TodaySet
    /\ apiKey = TRUE
    /\ storage = "ok"
    /\ openConns = 0
    /\ agent = NoAgent
    /\ attempts = 0
    /\ constructed = 0
    /\ inflight = [slot \in 1..MaxInflight |-> NoRequest]
    /\ resp = Idle

NextQuery == GetEvents \/ GetTodayEvents \/ GetExams \/ GetPlacements

SpecQuery == InitQuery /\ [][NextQuery]_vars

----------------------------------------------------------------------------
(* Properties of out-of-range filter arguments, checked under SpecQuery *)

OutOfEnum(x, enum) == x # None /\ x \notin enum

OutOfRange(n) == n # NoneInt /\ n[1] \notin MinSemester..MaxSemester

EventsIgnoreUnknownCategory ==
    IsTool("get_events") /\ OutOfEnum(resp.args.category, EventCategories) =>
        /\ resp.ok
        /\ resp.rows = get_events(events, today, resp.args.event_date, None,
                                  resp.args.days_ahead)

ExamsIgnoreUnknownDepartment ==
    IsTool("get_exams") /\ OutOfEnum(resp.args.department, Departments) =>
        /\ resp.ok
        /\ resp.rows = get_exams(exams, today, None, resp.args.semester,
                                 resp.args.subject, resp.args.days_ahead)

ExamsIgnoreSemesterOutOfRange ==
    IsTool("get_exams") /\ OutOfRange(resp.args.semester) =>
        /\ resp.ok
        /\ resp.rows = get_exams(exams, today, resp.args.department, NoneInt,
                                 resp.args.subject, resp.args.days_ahead)

PlacementsIgnoreUnknownDepartment ==
    IsTool("get_placements") /\ OutOfEnum(resp.args.department, Departments) =>
        /\ resp.ok
        /\ resp.rows = get_placements(placements, today, None, resp.args.company,
                                      resp.args.days_ahead)

\* C7 as stated: for get_events, get_exams and get_placements, a category,
\* department or semester argument outside its enumerated set or range does
\* not raise and gives the result of the same call without that argument.
C7_OutOfRangeArgumentsIgnored ==
    /\ EventsIgnoreUnknownCategory
    /\ ExamsIgnoreUnknownDepartment
    /\ ExamsIgnoreSemesterOutOfRange
    /\ PlacementsIgnoreUnknownDepartment

\* C7 amended: the category of get_events and the department and semester of
\* get_exams are ignored when outside their set or range (no error, same
\* result as without the argument).  get_placements does not test its
\* department against any set: it does not raise either, but uses every
\* non-empty department as a LIKE pattern, so it returns the records of the
\* unfiltered result whose stored department matches it.
C7_OutOfRangeIgnoredExceptPlacements ==
    /\ EventsIgnoreUnknownCategory
    /\ ExamsIgnoreUnknownDepartment
    /\ ExamsIgnoreSemesterOutOfRange
    /\ IsTool("get_placements") /\ OutOfEnum(resp.args.department, Departments) =>
           /\ resp.ok
           /\ RowIds(resp.rows) =
                  {r.id : r \in
                      {q \in RowSet(get_placements(placements, today, None,
                                        resp.args.company, resp.args.days_ahead)) :
                          \E p \in placements :
                              /\ p.id = q.id
                              /\ Like(p.department, Wrap(resp.args.department))}}

\* C7 witness: get_exams called with a department outside the six codes and
\* a semester outside 1..8 returned the stored exams.
C7_Witness ==
    /\ Returned("get_exams")
    /\ resp.args.department = LowerCse
    /\ resp.args.semester = SomeInt(9)
    /\ resp.args.subject = None
    /\ RowIds(resp.rows) = {r.id : r \in exams}
    /\ exams # {}

----------------------------------------------------------------------------
(* Python values crossing the resolver boundary.  A value is a record with *)
(* its type tag t and its payload v: text for a str, a number for an int,  *)
(* a sequence of values for a list, a function from keys to values for a   *)
(* dict.                                                                   *)

PyStr(text) == [t |-> "str", v |-> text]
PyInt(n) == [t |-> "int", v |-> n]
PyNone == [t |-> "NoneType", v |-> <<>>]
PyList(items) == [t |-> "list", v |-> items]
PyDict(f) == [t |-> "dict", v |-> f]

\* isinstance(x, dict)
IsDict(x) == x.t = "dict"

\* dict.get(key, default)
DictGet(d, key, default) == IF key \in DOMAIN d.v THEN d.v[key] ELSE default

RECURSIVE DigitsOf(_)
DigitsOf(n) == IF n < 10 THEN <<Digit(n)>> ELSE DigitsOf(n \div 10) \o <<Digit(n % 10)>>

\* str(n) for an int
IntText(n) == IF n < 0 THEN <<"-">> \o DigitsOf(0 - n) ELSE DigitsOf(n)

NoneText == <<"N", "o", "n", "e">>

\* repr(x) of a list element: text is quoted, the rest prints as str does.
RECURSIVE PyRepr(_)
RECURSIVE JoinRepr(_)
JoinRepr(items) ==
    IF items = <<>> THEN <<>>
    ELSE IF Len(items) = 1 THEN PyRepr(items[1])
    ELSE PyRepr(items[1]) \o <<",", " ">> \o JoinRepr(Tail(items))

PyRepr(x) ==
    IF x.t = "str" THEN <<"'">> \o x.v \o <<"'">>
    ELSE IF x.t = "int" THEN IntText(x.v)
    ELSE IF x.t = "list" THEN <<"[">> \o JoinRepr(x.v) \o <<"]">>
    ELSE NoneText

\* str(x): the text itself for a str, the printed form otherwise.
PyStrOf(x) == IF x.t = "str" THEN x.v ELSE PyRepr(x)

----------------------------------------------------------------------------
(* CampusAgent.process_query *)

ApologyPrefix ==
    <<"I", " ", "a", "p", "o", "l", "o", "g", "i", "z", "e", ",", " ",
      "b", "u", "t", " ", "I", " ", "e", "n", "c", "o", "u", "n", "t",
      "e", "r", "e", "d", " ", "a", "n", " ", "e", "r", "r", "o", "r",
      ":", " ">>

\* What self.agent.run(user_message) does: it returns a result whose output
\* is any value, or raises an error whose str() is detail.
Produced(output) == [raised |-> FALSE, output |-> output, detail |-> <<>>]
Raised(detail) == [raised |-> TRUE, output |-> PyNone, detail |-> detail]

\* process_query with the default of output.get("message", "") left out.
process_query_nodefault(run) ==
    IF run.raised
    THEN [message |-> PyStr(ApologyPrefix \o run.detail), data |-> PyNone]
    ELSE IF IsDict(run.output)
    THEN [message |-> DictGet(run.output, "message", PyNone),
          data |-> DictGet(run.output, "data", PyNone)]
    ELSE [message |-> PyStr(PyStrOf(run.output)), data |-> PyNone]

process_query(run) ==
    IF run.raised
    THEN [message |-> PyStr(ApologyPrefix \o run.detail), data |-> PyNone]
    ELSE IF IsDict(run.output)
    THEN [message |-> DictGet(run.output, "message", PyStr(<<>>)),
          data |-> DictGet(run.output, "data", PyNone)]
    ELSE [message |-> PyStr(PyStrOf(run.output)), data |-> PyNone]

----------------------------------------------------------------------------
(* POST /chat/ *)

Hi == <<"H", "i">>
Boom == <<"b", "o", "o", "m">>

Absent == [t |-> "absent", v |-> <<>>]

\* The dict with the given entries; an Absent entry is a missing key.
DictOf(message, data, extra) ==
    LET keys == (IF message = Absent THEN {} ELSE {"message"})
                \cup (IF data = Absent THEN {} ELSE {"data"})
                \cup (IF extra = Absent THEN {} ELSE {"sources"})
    IN PyDict([k \in keys |-> IF k = "message" THEN message
                              ELSE IF k = "data" THEN data
                              ELSE extra])

EventMapping == PyDict([title |-> PyStr(Hi)])

MessageEntries == {Absent, PyStr(Hi), PyNone, PyInt(42)}
DataEntries == {Absent, PyNone, PyList(<<>>), PyList(<<EventMapping>>), PyStr(Hi)}
ExtraEntries == {Absent, PyList(<<>>)}

DictOutputs ==
    {DictOf(m, d, x) : m \in MessageEntries, d \in DataEntries, x \in ExtraEntries}

OtherOutputs ==
    {PyStr(Hi), PyStr(<<>>), PyInt(42), PyNone, PyList(<<>>),
     PyList(<<PyInt(1), PyStr(Hi)>>)}

RunOutcomes ==
    {Produced(o) : o \in DictOutputs \cup OtherOutputs}
        \cup {Raised(d) : d \in {Boom, <<>>}}

UserMessages == {"", "hello", "asdf123", "What's happening today?"}

\* The GROQ_API_KEY check of CampusAgent.__init__, reached through
\* create_campus_agent().
CanConstructAgent == apiKey

\* get_agent() with the global assignment left out: each call that finds
\* _agent None constructs an instance and hands it out without keeping it.
get_agent_unshared ==
    IF agent # NoAgent
    THEN [ok |-> TRUE, handle |-> agent, agent |-> agent,
          attempts |-> attempts, constructed |-> constructed]
    ELSE IF CanConstructAgent
    THEN [ok |-> TRUE, handle |-> <<constructed + 1>>, agent |-> NoAgent,
          attempts |-> attempts + 1, constructed |-> constructed + 1]
    ELSE [ok |-> FALSE, handle |-> NoAgent, agent |-> NoAgent,
          attempts |-> attempts + 1, constructed |-> constructed]

\* get_agent(): the handle it returns (or the failure it raises) and the
\* values it leaves in _agent and in the two counters.  It has no await, so
\* it runs to its end before any other request is served.
get_agent ==
    IF agent # NoAgent
    THEN [ok |-> TRUE, handle |-> agent, agent |-> agent,
          attempts |-> attempts, constructed |-> constructed]
    ELSE IF CanConstructAgent
    THEN [ok |-> TRUE, handle |-> <<constructed + 1>>,
          agent |-> <<constructed + 1>>,
          attempts |-> attempts + 1, constructed |-> constructed + 1]
    ELSE [ok |-> FALSE, handle |-> NoAgent, agent |-> NoAgent,
          attempts |-> attempts + 1, constructed |-> constructed]

\* ChatResponse: message is a str, data is None or a list of dicts.
ValidChatResponse(result) ==
    /\ result.message.t = "str"
    /\ \/ result.data.t = "NoneType"
       \/ /\ result.data.t = "list"
          /\ \A i \in 1..Len(result.data.v) : IsDict(result.data.v[i])

NoRun == Raised(<<>>)
NoResult == [message |-> PyNone, data |-> PyNone]

\* The resolver made no tool call.
NoCall ==
    [kind |-> "tool", op |-> "none", args |-> [none |-> TRUE], ok |-> TRUE,
     rows |-> <<>>, err |-> <<>>]

\* The reply to POST /chat.  With status 200 the body is result; ran tells
\* whether process_query was reached, call and run are what the resolver
\* did, handle is the agent that served the request.
ChatReply(request, status, detail, ran, handle, call, run, result) ==
    [kind |-> "chat", request |-> request, status |-> status, detail |-> detail,
     ran |-> ran, handle |-> handle, call |-> call, run |-> run,
     result |-> result]

FreeSlots == {slot \in 1..MaxInflight : ~inflight[slot].busy}

\* The handler chat() up to its await: ChatRequest validation and
\* get_agent().  The request then waits in inflight for the resolver.
chat_begin(request) ==
    /\ FreeSlots # {}
    /\ IF request = ""
       THEN /\ resp' = ChatReply(request, 422, "String should have at least 1 character",
                                 FALSE, NoAgent, NoCall, NoRun, NoResult)
            /\ UNCHANGED chatVars
       ELSE /\ agent # NoAgent \/ attempts < MaxAttempts
            /\ agent' = get_agent.agent
            /\ attempts' = get_agent.attempts
            /\ constructed' = get_agent.constructed
            /\ IF get_agent.ok
               THEN /\ inflight' =
                          [inflight EXCEPT ![CHOOSE slot \in FreeSlots :
                                                \A other \in FreeSlots : slot <= other] =
                              [busy |-> TRUE, request |-> request,
                               handle |-> get_agent.handle]]
                    /\ UNCHANGED resp
               ELSE /\ resp' = ChatReply(request, 500, "Failed to initialize AI agent",
                                         FALSE, NoAgent, NoCall, NoRun, NoResult)
                    /\ UNCHANGED inflight
    /\ UNCHANGED <<events, exams, placements, seq, localDb, today, apiKey, storage, openConns>>

\* agent.run(user_message): an exception raised by a tool function leaves
\* the run as that exception; otherwise the run ends with the model's
\* outcome.
agent_run(call, run) == IF call.ok THEN run ELSE Raised(call.err)

\* chat() from its await on, were process_query without its except clause:
\* the resolver's error reaches chat()'s own "except Exception".
chat_end_reraise(slot, call, run) ==
    /\ inflight[slot].busy
    /\ LET outcome == agent_run(call, run)
           result == process_query(outcome)
       IN resp' = IF ~outcome.raised /\ ValidChatResponse(result)
                  THEN ChatReply(inflight[slot].request, 200, "", TRUE,
                                 inflight[slot].handle, call, outcome, result)
                  ELSE ChatReply(inflight[slot].request, 500, "Error processing query",
                                 TRUE, inflight[slot].handle, call, outcome, NoResult)
    /\ inflight' = [inflight EXCEPT ![slot] = NoRequest]
    /\ IF call.op = "get_today_events"
       THEN today_events_effects(call)
       ELSE UNCHANGED <<localDb, openConns>>
    /\ UNCHANGED <<events, exams, placements, seq, today, apiKey, storage,
                   agent, attempts, constructed>>

\* The handler chat() from its await on: the resolver's run (with the tool
\* call it made, if any), process_query's normalization, ChatResponse
\* construction.
chat_end(slot, call, run) ==
    /\ inflight[slot].busy
    /\ LET outcome == agent_run(call, run)
           result == process_query(outcome)
       IN resp' = IF ValidChatResponse(result)
                  THEN ChatReply(inflight[slot].request, 200, "", TRUE,
                                 inflight[slot].handle, call, outcome, result)
                  ELSE ChatReply(inflight[slot].request, 500, "Error processing query",
                                 TRUE, inflight[slot].handle, call, outcome, result)
    /\ inflight' = [inflight EXCEPT ![slot] = NoRequest]
    /\ IF call.op = "get_today_events"
       THEN today_events_effects(call)
       ELSE UNCHANGED <<localDb, openConns>>
    /\ UNCHANGED <<events, exams, placements, seq, today, apiKey, storage,
                   agent, attempts, constructed>>

\* The tool calls a resolver run makes here: none, get_events() or
\* get_today_events().
ToolCalls ==
    {NoCall, call_get_today_events}
        \cup {call_get_events(None, None, days_ahead) : days_ahead \in DaysAheadSet}

ChatBegin == \E request \in UserMessages : chat_begin(request)

ChatEnd ==
    \E slot \in 1..MaxInflight, call \in ToolCalls :
        \E run \in (IF call = NoCall THEN RunOutcomes ELSE {Produced(PyStr(Hi))}) :
            chat_end(slot, call, run)

InitChat == Init /\ localDb = NoLocalDb

NextChat == ChatBegin \/ ChatEnd

SpecChat == InitChat /\ [][NextChat]_vars

----------------------------------------------------------------------------
(* Properties of the response normalizer, checked under SpecChat *)

\* The text Python prints for each non-mapping output of the model.
PrintedAs(output) ==
    IF output = PyStr(Hi) THEN Hi
    ELSE IF output = PyStr(<<>>) THEN <<>>
    ELSE IF output = PyInt(42) THEN <<"4", "2">>
    ELSE IF output = PyNone THEN <<"N", "o", "n", "e">>
    ELSE IF output = PyList(<<>>) THEN <<"[", "]">>
    ELSE <<"[", "1", ",", " ", "'", "H", "i", "'", "]">>

\* C10: from a mapping, process_query takes message from the 'message' entry
\* (empty text when absent) and data from the 'data' entry (null when
\* absent); from any other output, message is the output printed as text and
\* data is null.
C10_NormalizedResult ==
    resp.kind = "chat" /\ resp.ran /\ ~resp.run.raised =>
        IF resp.run.output.t = "dict"
        THEN /\ "message" \in DOMAIN resp.run.output.v =>
                    resp.result.message = resp.run.output.v["message"]
             /\ "message" \notin DOMAIN resp.run.output.v =>
                    resp.result.message = PyStr(<<>>)
             /\ "data" \in DOMAIN resp.run.output.v =>
                    resp.result.data = resp.run.output.v["data"]
             /\ "data" \notin DOMAIN resp.run.output.v =>
                    resp.result.data = PyNone
        ELSE /\ resp.result.message = PyStr(PrintedAs(resp.run.output))
             /\ resp.result.data = PyNone

\* C10 witness: a mapping without a 'message' entry, carrying a data list,
\* was normalized to the empty message and that list.
C10_Witness ==
    /\ resp.kind = "chat"
    /\ resp.ran
    /\ resp.run = Produced(DictOf(Absent, PyList(<<EventMapping>>), Absent))
    /\ resp.result = [message |-> PyStr(<<>>), data |-> PyList(<<EventMapping>>)]

----------------------------------------------------------------------------
(* The three insert routes together.  The tables hold at most             *)
(* MaxStoreRows rows between them here.                                    *)

TotalRows == Cardinality(events) + Cardinality(exams) + Cardinality(placements)

NextInsert ==
    \/ AddEvent /\ TotalRows' <= MaxStoreRows
    \/ AddExam /\ TotalRows' <= MaxStoreRows
    \/ AddPlacement /\ TotalRows' <= MaxStoreRows

\* The store is as start-up left it; statements succeed or fail throughout.
InitInsert == Init /\ apiKey /\ localDb = NoLocalDb

SpecInsert == InitInsert /\ [][NextInsert]_vars

\* The insert and delete routes of the three tables together, with at most
\* MaxStoreIds ids issued between the tables.
NextAdmin ==
    \/ /\ NextInsert
       /\ seq'.events + seq'.exams + seq'.placements <= MaxStoreIds
    \/ DeleteEvent
    \/ DeleteExam
    \/ DeletePlacement

SpecAdmin == InitInsert /\ [][NextAdmin]_vars

----------------------------------------------------------------------------
(* Properties of the chat endpoint, checked under SpecChat *)

ApologyForBoom ==
    <<"I", " ", "a", "p", "o", "l", "o", "g", "i", "z", "e", ",", " ",
      "b", "u", "t", " ", "I", " ", "e", "n", "c", "o", "u", "n", "t",
      "e", "r", "e", "d", " ", "a", "n", " ", "e", "r", "r", "o", "r",
      ":", " ", "b", "o", "o", "m">>

\* C11: when the resolver's run raises an error, the chat endpoint answers
\* normally (status 200) with the apology text followed by the error's
\* detail as message and null as data.
C11_ResolverErrorBecomesApology ==
    resp.kind = "chat" /\ resp.ran /\ resp.run.raised =>
        /\ resp.status = 200
        /\ resp.result.message = PyStr(ApologyPrefix \o resp.run.detail)
        /\ resp.result.data = PyNone

\* C11 witness: the run for "asdf123" raised "boom" and the reply is the
\* apology naming it, with status 200.
C11_Witness ==
    /\ resp.kind = "chat"
    /\ resp.request = "asdf123"
    /\ resp.run = Raised(Boom)
    /\ resp.status = 200
    /\ resp.result = [message |-> PyStr(ApologyForBoom), data |-> PyNone]

\* C12: for every non-empty message and every outcome of the resolver's run
\* the chat endpoint answers with status 200 and a body whose message is
\* text and whose data is null or a list of mappings; it never fails hard.
C12_AlwaysAnswers ==
    resp.kind = "chat" /\ resp.request # "" /\ resp.ran =>
        /\ resp.status = 200
        /\ resp.result.message.t = "str"
        /\ \/ resp.result.data = PyNone
           \/ /\ resp.result.data.t = "list"
              /\ \A i \in 1..Len(resp.result.data.v) :
                     resp.result.data.v[i].t = "dict"

\* C13: in one process the agent is constructed at most once, however the
\* chat requests interleave, and every request served after the construction
\* is served by that one instance.
C13_OneAgentPerProcess ==
    /\ constructed <= 1
    /\ agent # NoAgent => constructed = 1 /\ agent = <<1>>
    /\ \A slot \in 1..MaxInflight :
           inflight[slot].busy => inflight[slot].handle = agent
    /\ resp.kind = "chat" /\ resp.ran => resp.handle = agent

\* C13 witness: one request has been answered and two more are suspended in
\* the resolver at the same time, all three on the only instance made.
C13_Witness ==
    /\ constructed = 1
    /\ attempts = 1
    /\ resp.kind = "chat" /\ resp.ran /\ resp.handle = <<1>>
    /\ inflight[1].busy /\ inflight[1].handle = <<1>>
    /\ inflight[2].busy /\ inflight[2].handle = <<1>>

\* C14: a chat request on which constructing the agent fails gets the
\* failure as an error, and once a construction has failed no later request
\* attempts it again.
C14_FailedConstructionNotRetried ==
    [][/\ attempts' > attempts /\ constructed' = constructed =>
              resp'.kind = "chat" /\ resp'.status = 500 /\ ~resp'.ran
       /\ attempts > constructed => attempts' = attempts]_vars

\* The resolver's tool call met a storage fault: a statement on
\* data/campus.db failed, or app/campus.db had no events table.
CallMetFault ==
    \/ resp.call.op = "get_events" /\ storage # "ok"
    \/ resp.call.op = "get_today_events" /\ ~localDb.hasTable

\* C19: a storage fault met by a Query Layer call is not swallowed or turned
\* into an empty result: the call ends by raising it, and the chat turn in
\* which it was made answers with the apology message and null data.
C19_StorageFaultPropagates ==
    resp.kind = "chat" /\ resp.ran /\ CallMetFault =>
        /\ ~resp.call.ok
        /\ resp.call.err # <<>>
        /\ resp.run.raised
        /\ resp.run.detail = resp.call.err
        /\ resp.status = 200
        /\ resp.result.message = PyStr(ApologyPrefix \o resp.call.err)
        /\ resp.result.data = PyNone

\* C19 witness: get_events, called by the resolver while statements on the
\* store fail, raised, and the chat reply is the apology naming the fault.
C19_Witness ==
    /\ resp.kind = "chat"
    /\ resp.ran
    /\ resp.call.op = "get_events"
    /\ storage = "failing"
    /\ resp.call.err = DiskIoError
    /\ resp.status = 200
    /\ resp.result = [message |-> PyStr(ApologyPrefix \o DiskIoError), data |-> PyNone]

----------------------------------------------------------------------------
(* Properties of the insert routes, checked under SpecInsert *)

BreaksCheck(op, form) ==
    \/ /\ op = "add_event"
       /\ form.category \notin {Cultural, Technical}
    \/ /\ op = "add_exam"
       /\ \/ form.department \notin {CSE, ECE, ME, CE, IT, EEE}
          \/ form.semester < 1
          \/ form.semester > 8

\* C15: an admin insert whose event category, exam department or exam
\* semester is outside its enumeration or range is answered with an error,
\* and the three tables and their id counters stay exactly as they were.
C15_RejectedInsertLeavesStore ==
    [][resp'.kind = "admin" /\ BreaksCheck(resp'.op, resp'.form) =>
           /\ resp'.status = 500
           /\ events' = events
           /\ exams' = exams
           /\ placements' = placements
           /\ seq' = seq]_vars

\* C15 witness: an exam of semester 9 was submitted while the store held a
\* row; the reply is the error and the row is still there.
C15_Witness ==
    /\ resp.kind = "admin"
    /\ resp.op = "add_exam"
    /\ resp.form.semester = 9
    /\ resp.form.department = CSE
    /\ resp.status = 500
    /\ storage = "ok"
    /\ TotalRows = 1

----------------------------------------------------------------------------
(* Properties of the stored rows and of the tools' side effects, checked   *)
(* under SpecEvents                                                        *)

\* YYYY-MM-DD: four digits, two digits, two digits, naming a day that exists.
IsIsoDate(s) ==
    /\ Len(s) = 10
    /\ s[5] = "-"
    /\ s[8] = "-"
    /\ \A i \in {1, 2, 3, 4, 6, 7, 9, 10} : IsDigit(s[i])
    /\ NumberOf(SubSeq(s, 6, 7)) \in 1..12
    /\ NumberOf(SubSeq(s, 9, 10)) \in 1..MonthLen[NumberOf(SubSeq(s, 6, 7))]

\* C16: the date of every stored event, exam and placement is a calendar
\* date written YYYY-MM-DD.
C16_StoredDatesAreIso ==
    /\ \A r \in events : IsIsoDate(r.date)
    /\ \A r \in exams : IsIsoDate(r.date)
    /\ \A r \in placements : IsIsoDate(r.date)

\* C20: given an explicit date d, get_events returns exactly the stored
\* events whose date is d (of the given category, when a valid category was
\* given), whatever days_ahead is; the window from today plays no part.
C20_ExplicitDateIgnoresWindow ==
    /\ Returned("get_events")
    /\ resp.args.event_date # None
    /\ resp.args.event_date # <<>>
    => RowSet(resp.rows) =
           {r \in events :
               /\ r.date = resp.args.event_date
               /\ resp.args.category \in {Cultural, Technical} =>
                      r.category = resp.args.category}

\* C20 witness: asked for 1 July with days_ahead = 0 on 10 June, get_events
\* returned an event of 1 July.
C20_Witness ==
    /\ Returned("get_events")
    /\ resp.args.event_date = Jul01
    /\ resp.args.days_ahead = 0
    /\ today = DaysBefore(6) + 10
    /\ Len(resp.rows) >= 1
    /\ \A i \in 1..Len(resp.rows) : resp.rows[i].date = Jul01

\* C17: whether a Query Layer call ends by returning or by raising, no
\* connection it opened is still open when it has ended.
C17_ConnectionsReleased ==
    resp.kind = "tool" => openConns = 0

\* C18: a Query Layer call is read-only: it leaves the three tables as they
\* were and creates no storage object.
C18_ToolsOnlyRead ==
    [][resp'.kind = "tool" =>
           /\ events' = events
           /\ exams' = exams
           /\ placements' = placements
           /\ seq' = seq
           /\ localDb'.exists = localDb.exists]_vars

----------------------------------------------------------------------------
(* Properties of the admin routes, checked under SpecAdmin *)

\* after is before with one more row, which is the submitted form under an
\* id above top and unlike the id of any row of before.
InsertedOne(before, after, form, top) ==
    \E r \in after :
        /\ r \notin before
        /\ after = before \cup {r}
        /\ [r EXCEPT !.id = 0] = form
        /\ r.id > top
        /\ \A o \in before : o.id # r.id

UniqueIds(tbl) == \A a \in tbl, b \in tbl : a.id = b.id => a = b

DeleteTarget(op) ==
    IF op = "delete_event" THEN [rows |-> events, url |-> "/admin/events"]
    ELSE IF op = "delete_exam" THEN [rows |-> exams, url |-> "/admin/exams"]
    ELSE [rows |-> placements, url |-> "/admin/placements"]

\* C23: while the store works, an admin delete of an id that no row of the
\* table has (never inserted, or deleted before) is answered with the
\* redirect to the listing, not an error, and leaves the three tables and
\* their counters as they were; so a second delete of an id changes nothing
\* after the first.
C23_DeleteAbsentIsNoOp ==
    [][/\ resp'.kind = "admin"
       /\ resp'.op \in {"delete_event", "delete_exam", "delete_placement"}
       /\ storage = "ok"
       /\ \A r \in DeleteTarget(resp'.op).rows : r.id # resp'.form.id
       => /\ resp'.status = 303
          /\ resp'.url = DeleteTarget(resp'.op).url
          /\ events' = events
          /\ exams' = exams
          /\ placements' = placements
          /\ seq' = seq]_vars

\* C23 witness: with one event stored under id 1 and no id 2 ever issued,
\* the delete of event 2 was answered with the redirect and the row is
\* still there.
C23_Witness ==
    /\ resp.kind = "admin"
    /\ resp.op = "delete_event"
    /\ resp.form.id = 2
    /\ resp.status = 303
    /\ seq.events = 1
    /\ \E r \in events : r.id = 1

----------------------------------------------------------------------------
(* Property of the placements department filter, checked under             *)
(* SpecPlacements                                                          *)

\* C22: asked for one of the six department codes, get_placements returns
\* only records whose department list has that code as an element; a record
\* whose codes merely contain it inside a longer code is not returned.
C22_DepartmentIsListElement ==
    /\ Returned("get_placements")
    /\ resp.args.department \in {CSE, ECE, ME, CE, IT, EEE}
    => \A i \in 1..Len(resp.rows) :
           \E j \in 1..Len(resp.rows[i].department) :
               resp.rows[i].department[j] = resp.args.department

====
